---- MODULE Spec2Model ----
(***************************************************************************)
(* A model of the VerifyAI analysis session (src/App.tsx) and of the       *)
(* analysis service wrapper analyzeText (src/unnamed/part_000, the variant *)
(* whose result shape matches src/types.ts).                               *)
(*                                                                         *)
(* Conventions.                                                            *)
(*  - A nullable value (T | null, or an optional field) is a sequence of   *)
(*    length 0 (absent) or 1 (present): <<>> or <<v>>.                     *)
(*  - A JavaScript object has an identity: every segment carries a `ref`   *)
(*    <<call, index, generation>>; `===` on segments compares refs.        *)
(*    Objects are never mutated in place by the code, so equal refs imply  *)
(*    equal contents.                                                      *)
(*  - A raw response text is a sequence of lexical tokens (prose, fence    *)
(*    markers, whitespace, one JSON document), on which startsWith,        *)
(*    replace, trim and JSON.parse are computed as the code computes them. *)
(*  - segment.suggestions undefined and [] are both <<>>: every use in the *)
(*    code (`s.suggestions && s.suggestions.length > 0`, `suggestions?.map`)*)
(*    treats them alike.                                                   *)
(***************************************************************************)
EXTENDS Integers, Sequences, FiniteSets, TLC

VARIABLES
  inputText,        \* useState('')            App.tsx:29
  status,           \* useState(IDLE)          App.tsx:30
  result,           \* useState(null)          App.tsx:31   (option)
  selectedSegment,  \* useState(null)          App.tsx:32   (option)
  error,            \* useState(null)          App.tsx:33   (option)
  apiKey,           \* process.env.API_KEY is set (fixed for a session)
  pending,          \* analyzeText promises not yet settled
  nCalls,           \* number of handleAnalyze runs that passed the guards
  crashed,          \* the render threw: the React root is unmounted
  isExtracting,     \* useState(false)         App.tsx:35; true exactly
                    \* while extractTextFromFile awaits the file's text
  lastOp,           \* history: the handler that ran last
  preStatus,        \* history: status before that handler ran
  lastResp,         \* history: what the call settled last received (option)
  rcSegs,           \* reconciliation harness: parsed.segments
  rcChunks,         \* reconciliation harness: groundingChunks
  rcOut,            \* reconciliation harness: the segments after each pass
  acSegs,           \* correction harness: the segments of a result
  acOut             \* correction harness: the result after each pass

vars == <<inputText, status, result, selectedSegment, error, apiKey, pending,
          nCalls, crashed, isExtracting, lastOp, preStatus, lastResp,
          rcSegs, rcChunks, rcOut, acSegs, acOut>>

sessionVars == <<inputText, status, result, selectedSegment, error, apiKey,
                 pending, nCalls, crashed, isExtracting, lastOp, preStatus, lastResp>>

rcVars == <<rcSegs, rcChunks, rcOut>>

acVars == <<acSegs, acOut>>

-----------------------------------------------------------------------------
(* Bounds and program constants *)

MaxCalls == 2

MaxSegs == 5

MaxChunks == 2

MaxPasses == 2

MinChars == 50

-----------------------------------------------------------------------------
(* Generic helpers *)

None == <<>>

Some(v) == <<v>>

IsSome(o) == Len(o) > 0

Val(o) == o[1]

RECURSIVE SumLen(_)
SumLen(ss) == IF ss = <<>> THEN 0 ELSE Len(Head(ss).text) + SumLen(Tail(ss))

RECURSIVE Concat(_)
Concat(ss) == IF ss = <<>> THEN "" ELSE Head(ss).text \o Concat(Tail(ss))

-----------------------------------------------------------------------------
(* AnalysisStatus, src/types.ts:27-32 *)

IDLE == "IDLE"

ANALYZING == "ANALYZING"

SUCCESS == "SUCCESS"

ERROR == "ERROR"

AnalysisStatus == {IDLE, ANALYZING, SUCCESS, ERROR}

-----------------------------------------------------------------------------
(* TextSegment, src/types.ts:2-9 *)

NoRef == <<0, 0, 0>>

TextSegment(text, type, suggestions, sourceUrl, explanation) ==
  [ref |-> NoRef, text |-> text, type |-> type, suggestions |-> suggestions,
   sourceUrl |-> sourceUrl, explanation |-> explanation]

\* JavaScript truthiness of seg.sourceUrl: undefined and "" are falsy.
HasSourceUrl(seg) == IsSome(seg.sourceUrl) /\ Val(seg.sourceUrl) # ""

-----------------------------------------------------------------------------
(* SegmentReconciler: the grounding URL backfill of analyzeText,           *)
(* src/unnamed/part_000:87-100                                             *)

\* A grounding chunk is its c.web?.uri: <<>> (no web, or no uri) or <<uri>>.
Chunk(uri) == [uri |-> uri]

\* Mutant: the .filter(Boolean) of line 90 is forgotten.
GroundingUrlsNoFilter(chunks) == [i \in 1..Len(chunks) |-> chunks[i].uri]

\* chunks.map((c: any) => c.web?.uri).filter(Boolean)        part_000:90
GroundingUrls(chunks) ==
  SelectSeq([i \in 1..Len(chunks) |-> chunks[i].uri],
            LAMBDA u : IsSome(u) /\ Val(u) # "")

\* Mutant: the cursor never advances.
NextUrlIdxStuck(urlIdx, n) == urlIdx

\* urlIdx = (urlIdx + 1) % urls.length                        part_000:95
NextUrlIdx(urlIdx, n) == (urlIdx + 1) % n

\* Mutant: any flagged segment is backfilled, not only plagiarism.
NeedsBackfillAnyFlag(seg, urls) ==
  seg.type # "original" /\ ~HasSourceUrl(seg) /\ Len(urls) > 0

\* seg.type === 'plagiarism' && !seg.sourceUrl && urls.length > 0   part_000:93
NeedsBackfill(seg, urls) ==
  seg.type = "plagiarism" /\ ~HasSourceUrl(seg) /\ Len(urls) > 0

\* parsed.segments.map(seg => ...) with the cursor urlIdx (0-based)   part_000:91-99
RECURSIVE Backfill(_, _, _)
Backfill(segs, urls, urlIdx) ==
  IF segs = <<>> THEN <<>>
  ELSE LET seg == Head(segs) IN
       IF NeedsBackfill(seg, urls)
       THEN <<[seg EXCEPT !.sourceUrl = urls[urlIdx + 1]]>>
              \o Backfill(Tail(segs), urls, NextUrlIdx(urlIdx, Len(urls)))
       ELSE <<seg>> \o Backfill(Tail(segs), urls, urlIdx)

\* if (chunks && chunks.length > 0) { ... }                   part_000:88-100
Reconcile(segs, chunks) ==
  IF Len(chunks) > 0 THEN Backfill(segs, GroundingUrls(chunks), 0) ELSE segs

-----------------------------------------------------------------------------
(* AnalysisResult as delivered by JSON.parse: any JSON value.              *)
(* src/types.ts:16-25; `has` is the set of keys the object carries.        *)

RequiredFields == {"plagiarismPercentage", "grammarScore", "segments", "citations"}

AllFields == RequiredFields \cup
             {"aiLikelihood", "writingTone", "overallSummary", "subtopics"}

JObject(has, pp, gs, segs) ==
  [jtype |-> "object", has |-> has,
   plagiarismPercentage |-> pp, grammarScore |-> gs,
   aiLikelihood |-> IF "aiLikelihood" \in has THEN 12 ELSE 0,
   writingTone |-> IF "writingTone" \in has THEN "Academic" ELSE "",
   overallSummary |-> IF "overallSummary" \in has THEN "Summary" ELSE "",
   subtopics |-> IF "subtopics" \in has
                 THEN <<[title |-> "Intro", segmentIndex |-> 0]>> ELSE <<>>,
   segments |-> segs,
   citations |-> IF "citations" \in has THEN <<"Doe, J. (2020). Water.">> ELSE <<>>]

JNull == [JObject({}, 0, 0, <<>>) EXCEPT !.jtype = "null"]

\* `parsed.segments` is an array that .map can be called on.
HasSegments(j) == j.jtype = "object" /\ "segments" \in j.has

\* What the spec calls a structurally valid AnalysisResult.
StructurallyValid(j) == j.jtype = "object" /\ RequiredFields \subseteq j.has

-----------------------------------------------------------------------------
(* ResponseValidator: response.text handling, src/unnamed/part_000:79-85   *)

Tok(kind, val) == [tok |-> kind, val |-> val]

Prose == Tok("prose", JNull)

FenceJson == Tok("fenceJson", JNull)   \* the characters ```json

Fence == Tok("fence", JNull)           \* the characters ```

Ws == Tok("ws", JNull)                 \* a newline or blanks

Json(j) == Tok("json", j)              \* the text of one JSON document

RECURSIVE TrimStart(_)
TrimStart(t) == IF t # <<>> /\ Head(t).tok = "ws" THEN TrimStart(Tail(t)) ELSE t

RECURSIVE TrimEnd(_)
TrimEnd(t) ==
  IF t # <<>> /\ t[Len(t)].tok = "ws" THEN TrimEnd(SubSeq(t, 1, Len(t) - 1)) ELSE t

\* String.prototype.trim
Trim(t) == TrimEnd(TrimStart(t))

\* cleanText.startsWith("```")                                part_000:81
StartsWithFence(t) == t # <<>> /\ Head(t).tok \in {"fence", "fenceJson"}

\* .replace(/^```json/, "")                                   part_000:82
StripLeadingJsonFence(t) ==
  IF t # <<>> /\ Head(t).tok = "fenceJson" THEN Tail(t) ELSE t

\* .replace(/```$/, "")   ($ without the m flag: end of input only)   part_000:82
StripTrailingFence(t) ==
  IF t # <<>> /\ t[Len(t)].tok = "fence" THEN SubSeq(t, 1, Len(t) - 1) ELSE t

\* let cleanText = response.text || "{}"; if (startsWith) {...}   part_000:80-83
CleanText(text) ==
  LET t0 == IF text = <<>> THEN <<Json(JObject({}, 0, 0, <<>>))>> ELSE text
  IN  IF StartsWithFence(t0)
      THEN Trim(StripTrailingFence(StripLeadingJsonFence(t0)))
      ELSE t0

\* JSON.parse: whitespace around one JSON document is accepted, anything
\* else is a SyntaxError.                                      part_000:85
JsonParse(t) ==
  LET u == Trim(t)
  IN  IF Len(u) = 1 /\ u[1].tok = "json"
      THEN [ok |-> TRUE, value |-> u[1].val]
      ELSE [ok |-> FALSE, value |-> JNull]

-----------------------------------------------------------------------------
(* Inputs: the documents a user can enter and the responses the external   *)
(* service can give (the service is free to answer anything).              *)

DocA == "The sky is blue. Water is wet. Grass is green. Snow is white."

ShortDoc == "The sky is blue. Water is wet."

BlankDoc == "   "

\* String.prototype.trim() is "" : decided per document of the input set.
IsBlank(text) == text \in {"", BlankDoc}

Docs == {"", BlankDoc, ShortDoc, DocA}

\* String.prototype.trim
RECURSIVE TrimString(_)
TrimString(s) ==
  IF s = "" THEN s
  ELSE IF SubSeq(s, 1, 1) \in {" ", "\n"} THEN TrimString(SubSeq(s, 2, Len(s)))
  ELSE IF SubSeq(s, Len(s), Len(s)) \in {" ", "\n"}
       THEN TrimString(SubSeq(s, 1, Len(s) - 1))
  ELSE s

\* The files a user can drop or pick: a type the code reads, and the text
\* of the file (for a PDF, of its only page).
FileKinds == {"pdf", "txt"}

FileTexts == {DocA}

InvalidFileType == "Invalid file type. Only PDF and TXT are supported."

FailedToRead == "Failed to read file."

Ref0 == "https://x.test/a"

Ref1 == "https://x.test/b"

OwnUrl == "https://m.test/own"

SegsA ==
  << TextSegment("The sky is blue. ", "original", <<>>, None, None),
     TextSegment("Water is wet. ", "plagiarism",
                 <<"Water feels wet. ", "As is well known, water is undeniably wet. ">>,
                 None, Some("Matches a web page")),
     TextSegment("Grass is green. Snow is white.", "grammar",
                 <<"Grass is green; snow is white.">>, None, Some("Run-on")) >>

SegsB ==
  << TextSegment("Copy this line. ", "plagiarism", <<"Rewrite this line. ">>, None, None),
     TextSegment("Copy this line. ", "plagiarism", <<"Rewrite this line. ">>, None, None),
     TextSegment("Then add an original ending.", "plagiarism", <<>>,
                 Some(OwnUrl), Some("Verbatim")) >>

\* DocA again, cut into a copied opening and a clumsy remainder.
SegsC ==
  << TextSegment("The sky is blue. Water ", "plagiarism", <<>>, None, Some("Verbatim")),
     TextSegment("is wet. Grass is green. Snow is white.", "grammar",
                 <<"is wet and green.">>, None, Some("Wordy")) >>

ObjA == JObject(AllFields, 23, 85, SegsA)

ObjB == JObject(AllFields, 100, 150, SegsB)

ObjC == JObject(AllFields, 38, 70, SegsC)

\* An object without the scores and the citations, which still renders.
ObjPartial == JObject({"segments", "subtopics", "overallSummary"}, 0, 0,
                      <<TextSegment("The sky is blue. ", "original", <<>>, None, None)>>)

ObjEmpty == JObject({}, 0, 0, <<>>)

Payloads == {ObjA, ObjB, ObjC, ObjPartial, ObjEmpty, JNull}

NoChunks == <<>>                                   \* absent, or an empty list

ChunkNoUri == <<Chunk(None)>>                      \* a chunk without web.uri

ChunkOne == <<Chunk(Some(Ref0))>>

ChunkTwo == <<Chunk(None), Chunk(Some(Ref0)), Chunk(Some(Ref1))>>

EmptyText == <<>>                                  \* response.text is "" or undefined

Fenced(j) == <<FenceJson, Ws, Json(j), Ws, Fence>>

MISSING_API_KEY == "MISSING_API_KEY"

GenericFailure == "Analysis engine failed. Ensure your text is clear and try again."

TransportMessages == {"fetch failed", "API_KEY_INVALID: API key not valid"}

\* What ai.models.generateContent settles with: a response, or a rejection.
Response(text, chunks) ==
  [rejected |-> FALSE, text |-> text, chunks |-> chunks, message |-> ""]

Rejection(message) ==
  [rejected |-> TRUE, text |-> <<>>, chunks |-> <<>>, message |-> message]

Responses ==
  {Response(<<Json(ObjA)>>, c) : c \in {NoChunks, ChunkNoUri, ChunkOne, ChunkTwo}}
  \cup {Response(<<Json(ObjB)>>, c) : c \in {NoChunks, ChunkTwo}}
  \cup {Response(<<Json(ObjEmpty)>>, c) : c \in {NoChunks, ChunkOne}}
  \cup {Response(EmptyText, c) : c \in {NoChunks, ChunkOne}}
  \cup {Response(t, NoChunks) :
          t \in { <<Json(ObjC)>>, <<Json(ObjPartial)>>, <<Json(JNull)>>, <<Prose>>,
                  Fenced(ObjA),                  \* fenced
                  Fenced(ObjA) \o <<Ws>>,        \* fenced, with a final newline
                  <<Prose>> \o Fenced(ObjA) } }  \* prose, then fenced
  \cup {Rejection(m) : m \in TransportMessages}

-----------------------------------------------------------------------------
(* analyzeText, src/unnamed/part_000:4-108 *)

\* String.prototype.includes
Includes(s, sub) ==
  \E i \in 1..(Len(s) - Len(sub) + 1) : SubSeq(s, i, i + Len(sub) - 1) = sub

Resolved(j) == [ok |-> TRUE, value |-> j, message |-> ""]

Thrown(m) == [ok |-> FALSE, value |-> JNull, message |-> m]

\* catch (error) { ... }                                      part_000:103-107
CatchBlock(message) ==
  IF Includes(message, "API_KEY") THEN Thrown(MISSING_API_KEY)
  ELSE Thrown(GenericFailure)

\* Mutant: a response without usable grounding URLs is treated as a failure.
AfterAwaitRequireSources(resp) ==
  IF resp.rejected THEN CatchBlock(resp.message)
  ELSE LET parsed == JsonParse(CleanText(resp.text)) IN
       IF ~parsed.ok THEN CatchBlock("Unexpected token")
       ELSE IF GroundingUrls(resp.chunks) = <<>> THEN CatchBlock("no sources")
       ELSE IF ~HasSegments(parsed.value)
            THEN CatchBlock("Cannot read properties of undefined (reading 'map')")
       ELSE Resolved([parsed.value EXCEPT
                        !.segments = Reconcile(parsed.value.segments, resp.chunks)])

\* The try block after `await generateContent(...)`: clean, parse, backfill,
\* return parsed; every exception goes through the catch block.   part_000:79-107
AfterAwait(resp) ==
  IF resp.rejected THEN CatchBlock(resp.message)
  ELSE LET parsed == JsonParse(CleanText(resp.text)) IN
       IF ~parsed.ok THEN CatchBlock("Unexpected token")
       ELSE IF Len(resp.chunks) > 0
            THEN IF ~HasSegments(parsed.value)
                 THEN CatchBlock("Cannot read properties of undefined (reading 'map')")
                 ELSE Resolved([parsed.value EXCEPT
                        !.segments = Reconcile(parsed.value.segments, resp.chunks)])
            ELSE Resolved(parsed.value)

\* Mutant: the missing key is reported with the generic failure message.
KeyCheckGeneric(key) == IF key THEN Resolved(JNull) ELSE Thrown(GenericFailure)

\* if (!process.env.API_KEY || ...) throw new Error("MISSING_API_KEY")   part_000:5-7
KeyCheck(key) == IF key THEN Resolved(JNull) ELSE Thrown(MISSING_API_KEY)

-----------------------------------------------------------------------------
(* AnalysisSession: the App component, src/App.tsx *)

TooShortMessage == "Please provide at least 50 characters for a meaningful analysis."

FallbackMessage == "An error occurred during analysis."

\* History bookkeeping of a user-triggered handler.
Record(op) == lastOp' = op /\ preStatus' = status /\ lastResp' = None

\* A promise that is already settled (analyzeText threw before its await)
\* runs its continuation as a microtask, before any further user event.
MicrotaskReady == \E c \in pending : ~c.external

UiReady == ~crashed /\ ~MicrotaskReady

\* JSON.parse builds fresh objects: segment i of call id gets its identity.
WithRefs(j, id) ==
  [j EXCEPT !.segments = [i \in 1..Len(j.segments) |->
                            [j.segments[i] EXCEPT !.ref = <<id, i, 0>>]]]

\* The render reads result.segments.filter (line 201) and
\* result.subtopics.length (line 277) whenever result is not null.
Renderable(res) ==
  res = None \/ (Val(res).jtype = "object" /\ {"segments", "subtopics"} \subseteq Val(res).has)

\* The arithmetic of line 105 is JavaScript's, IEEE 754 binary64, on the
\* two lengths (0 <= plagiarizedChars <= totalChars < 2^13 here).
\* A positive binary64 number, (hi * 2^35 + mid * 2^17 + lo) / 2^k, with a
\* 53-bit significand held in three limbs; a carry out of a limb moves up.
Double(hi, mid, lo, k) ==
  LET m == mid + (lo \div 2^17)
  IN  [hi |-> hi + (m \div 2^18), mid |-> m % 2^18, lo |-> lo % 2^17, k |-> k]

\* Zero bits after the binary point of p / t before its first one bit.
RECURSIVE LeadingZeros(_, _)
LeadingZeros(p, t) == IF 2 * p >= t THEN 0 ELSE 1 + LeadingZeros(2 * p, t)

\* p / t for integers 0 < p < t < 2^13: the quotient's first 53 significant
\* bits by long division, rounded to nearest, ties to even.
Divide(p, t) ==
  LET z  == LeadingZeros(p, t)
      r0 == p * 2^z
      r1 == (r0 * 2^18) % t
      r2 == (r1 * 2^18) % t
      r3 == (r2 * 2^17) % t
      lo == (r2 * 2^17) \div t
      up == 2 * r3 > t \/ (2 * r3 = t /\ lo % 2 = 1)
  IN  Double((r0 * 2^18) \div t, (r1 * 2^18) \div t,
             lo + (IF up THEN 1 ELSE 0), z + 53)

\* x * 100: the exact product has 59 or 60 bits, of which 53 are kept,
\* rounded to nearest, ties to even.
Times100(x) ==
  LET lo1  == x.lo * 100
      mid1 == x.mid * 100 + (lo1 \div 2^17)
      hi1  == x.hi * 100 + (mid1 \div 2^18)
      lo   == lo1 % 2^17
      d    == IF hi1 >= 2^24 THEN 7 ELSE 6
      rest == lo % 2^d
      up   == rest > 2^(d - 1) \/ (rest = 2^(d - 1) /\ (lo \div 2^d) % 2 = 1)
  IN  Double(hi1, mid1 % 2^18, lo - rest + (IF up THEN 2^d ELSE 0), x.k)

\* Math.round: the integer part, plus one when the fraction is at least 1/2.
MathRound(x) ==
  LET e == x.k - 35
  IN  IF e > 26 THEN 0
      ELSE (x.hi \div 2^e) + ((x.hi \div 2^(e - 1)) % 2)

\* Math.round((plagiarizedChars / totalChars) * 100) in binary64.   App.tsx:105
RoundPercent(plagiarizedChars, totalChars) ==
  IF plagiarizedChars = 0 THEN 0
  ELSE IF plagiarizedChars = totalChars THEN 100
  ELSE MathRound(Times100(Divide(plagiarizedChars, totalChars)))

\* App.tsx:100-105
NewPercentage(newSegments) ==
  LET totalChars == SumLen(newSegments)
      plagiarizedChars == SumLen(SelectSeq(newSegments, LAMBDA x : x.type = "plagiarism"))
  IN  IF totalChars > 0 THEN RoundPercent(plagiarizedChars, totalChars) ELSE 0

\* Mutant: the replaced segment keeps its flag.
ReplacedKeepsType(s, suggestion) ==
  [s EXCEPT !.text = suggestion,
            !.ref = <<s.ref[1], s.ref[2], s.ref[3] + 1>>]

\* { ...s, text: suggestion, type: 'original' }: a new object.   App.tsx:97
Replaced(s, suggestion) ==
  [s EXCEPT !.text = suggestion, !.type = "original",
            !.ref = <<s.ref[1], s.ref[2], s.ref[3] + 1>>]

\* Mutant: the edit also resets the grammar score.
EditedResultRescored(res, newSegments) ==
  [res EXCEPT !.segments = newSegments,
              !.plagiarismPercentage = NewPercentage(newSegments),
              !.grammarScore = 100,
              !.has = @ \cup {"segments", "plagiarismPercentage", "grammarScore"}]

\* { ...result, segments: newSegments, plagiarismPercentage: newPercentage }
\*                                                             App.tsx:107-111
EditedResult(res, newSegments) ==
  [res EXCEPT !.segments = newSegments,
              !.plagiarismPercentage = NewPercentage(newSegments),
              !.has = @ \cup {"segments", "plagiarismPercentage"}]

\* Mutant: each pass takes the next suggestion; the segment keeps its flag
\* and drops the suggestion taken.
AutoCorrectedStepwise(s) ==
  IF s.type # "original" /\ Len(s.suggestions) > 0
  THEN [s EXCEPT !.text = s.suggestions[1],
                 !.suggestions = Tail(s.suggestions),
                 !.ref = <<s.ref[1], s.ref[2], s.ref[3] + 1>>]
  ELSE s

\* Mutant: the last suggestion is taken instead of the first.
AutoCorrectedLast(s) ==
  IF s.type # "original" /\ Len(s.suggestions) > 0
  THEN Replaced(s, s.suggestions[Len(s.suggestions)]) ELSE s

\* The map callback of handleAutoCorrectAll.                   App.tsx:117-122
AutoCorrected(s) ==
  IF s.type # "original" /\ Len(s.suggestions) > 0
  THEN Replaced(s, s.suggestions[1]) ELSE s

\* Mutant: the percentage is recomputed from the segments that stay flagged.
CorrectedResultRecomputed(res, newSegments) ==
  [res EXCEPT !.segments = newSegments,
              !.plagiarismPercentage = NewPercentage(newSegments),
              !.grammarScore = 100,
              !.has = @ \cup {"segments", "plagiarismPercentage", "grammarScore"}]

\* { ...result, segments: newSegments, plagiarismPercentage: 0, grammarScore: 100 }
\*                                                             App.tsx:124-128
CorrectedResult(res, newSegments) ==
  [res EXCEPT !.segments = newSegments,
              !.plagiarismPercentage = 0,
              !.grammarScore = 100,
              !.has = @ \cup {"segments", "plagiarismPercentage", "grammarScore"}]

\* The result handleAutoCorrectAll stores for a result res.   App.tsx:117-129
AutoCorrectAll(res) ==
  CorrectedResult(res, [i \in 1..Len(res.segments) |->
                          AutoCorrected(res.segments[i])])

\* Mutant: the button is disabled for a blank input only.
ScanDisabledBlankOnly == IsBlank(inputText)

\* disabled={status === ANALYZING || !inputText.trim()}        App.tsx:378
ScanDisabled == status = ANALYZING \/ IsBlank(inputText)

\* Mutant: handleAnalyze without the minimum-length check.
HandleAnalyzeNoMinimum ==
  IF IsBlank(inputText)
  THEN UNCHANGED <<status, error, result, selectedSegment, pending, nCalls>>
  ELSE /\ status' = ANALYZING
       /\ error' = None
       /\ result' = None
       /\ selectedSegment' = None
       /\ nCalls' = nCalls + 1
       /\ pending' = pending \cup
            {[id |-> nCalls + 1, text |-> inputText, external |-> apiKey]}

\* Mutant: a text under the minimum length puts the session in Error.
HandleAnalyzeShortIsError ==
  IF IsBlank(inputText)
  THEN UNCHANGED <<status, error, result, selectedSegment, pending, nCalls>>
  ELSE IF Len(inputText) < MinChars
  THEN /\ error' = Some(TooShortMessage)
       /\ status' = ERROR
       /\ UNCHANGED <<result, selectedSegment, pending, nCalls>>
  ELSE /\ status' = ANALYZING
       /\ error' = None
       /\ result' = None
       /\ selectedSegment' = None
       /\ nCalls' = nCalls + 1
       /\ pending' = pending \cup
            {[id |-> nCalls + 1, text |-> inputText, external |-> apiKey]}

\* handleAnalyze up to its await.                              App.tsx:51-64
HandleAnalyze ==
  IF IsBlank(inputText)
  THEN UNCHANGED <<status, error, result, selectedSegment, pending, nCalls>>
  ELSE IF Len(inputText) < MinChars
  THEN /\ error' = Some(TooShortMessage)
       /\ UNCHANGED <<status, result, selectedSegment, pending, nCalls>>
  ELSE /\ status' = ANALYZING
       /\ error' = None
       /\ result' = None
       /\ selectedSegment' = None
       /\ nCalls' = nCalls + 1
       /\ pending' = pending \cup
            {[id |-> nCalls + 1, text |-> inputText, external |-> apiKey]}

\* A click on the Scan Content button.                         App.tsx:376-378
ClickScan ==
  /\ UiReady
  /\ status # SUCCESS
  /\ ScanDisabled \/ Len(inputText) < MinChars \/ nCalls < MaxCalls
  /\ IF ScanDisabled
     THEN UNCHANGED <<status, error, result, selectedSegment, pending, nCalls>>
     ELSE HandleAnalyze
  /\ Record("clickScan")
  /\ UNCHANGED <<inputText, apiKey, crashed, isExtracting, rcVars, acVars>>

\* Mutant: a successful completion commits the result but not the status.
SettleWithoutStatus(c, resp, outcome) ==
  /\ pending' = pending \ {c}
  /\ IF outcome.ok
     THEN /\ result' = IF outcome.value.jtype = "null" THEN None
                       ELSE Some(WithRefs(outcome.value, c.id))
          /\ status' = status
          /\ error' = error
     ELSE /\ error' = Some(IF outcome.message # "" THEN outcome.message
                           ELSE FallbackMessage)
          /\ status' = ERROR
          /\ result' = result
  /\ crashed' = ~Renderable(result')
  /\ lastOp' = "complete"
  /\ preStatus' = status
  /\ lastResp' = Some([call |-> c, resp |-> resp, outcome |-> outcome])
  /\ UNCHANGED <<inputText, selectedSegment, apiKey, nCalls, isExtracting, rcVars, acVars>>

\* Mutant: a failed call is issued once more.
SettleRetrying(c, resp, outcome) ==
  /\ IF outcome.ok
     THEN /\ pending' = pending \ {c}
          /\ result' = IF outcome.value.jtype = "null" THEN None
                       ELSE Some(WithRefs(outcome.value, c.id))
          /\ status' = SUCCESS
          /\ error' = error
     ELSE /\ pending' = (pending \ {c}) \cup
                          (IF c.id <= MaxCalls
                           THEN {[c EXCEPT !.id = c.id + MaxCalls]} ELSE {})
          /\ error' = Some(IF outcome.message # "" THEN outcome.message
                           ELSE FallbackMessage)
          /\ status' = ERROR
          /\ result' = result
  /\ crashed' = ~Renderable(result')
  /\ lastOp' = "complete"
  /\ preStatus' = status
  /\ lastResp' = Some([call |-> c, resp |-> resp, outcome |-> outcome])
  /\ UNCHANGED <<inputText, selectedSegment, apiKey, nCalls, isExtracting, rcVars, acVars>>

\* The continuation of handleAnalyze after `await analyzeText(inputText)`.
\*                                                             App.tsx:64-71
Settle(c, resp, outcome) ==
  /\ pending' = pending \ {c}
  /\ IF outcome.ok
     THEN /\ result' = IF outcome.value.jtype = "null" THEN None
                       ELSE Some(WithRefs(outcome.value, c.id))
          /\ status' = SUCCESS
          /\ error' = error
     ELSE /\ error' = Some(IF outcome.message # "" THEN outcome.message
                           ELSE FallbackMessage)
          /\ status' = ERROR
          /\ result' = result
  /\ crashed' = ~Renderable(result')
  /\ lastOp' = "complete"
  /\ preStatus' = status
  /\ lastResp' = Some([call |-> c, resp |-> resp, outcome |-> outcome])
  /\ UNCHANGED <<inputText, selectedSegment, apiKey, nCalls, isExtracting, rcVars, acVars>>

\* What analyzeText makes of each response: it is a function of the response
\* alone, tabulated here.
Outcomes == [resp \in Responses |-> AfterAwait(resp)]

\* The external call of a pending analysis settles.
Complete ==
  /\ UiReady
  /\ \E c \in pending : \E resp \in Responses : Settle(c, resp, Outcomes[resp])

\* analyzeText threw MISSING_API_KEY before issuing any request.
CompleteNoKey ==
  /\ ~crashed
  /\ \E c \in pending :
       /\ ~c.external
       /\ Settle(c, Rejection(MISSING_API_KEY), KeyCheck(FALSE))

\* Mutant: reset is not offered while an analysis is running.
HandleResetWhenSettled ==
  /\ UiReady
  /\ status # ANALYZING
  /\ inputText' = ""
  /\ status' = IDLE
  /\ result' = None
  /\ selectedSegment' = None
  /\ error' = None
  /\ Record("reset")
  /\ UNCHANGED <<apiKey, pending, nCalls, crashed, isExtracting, rcVars, acVars>>

\* handleReset (logo, or the New Scan button).                 App.tsx:74-82, 211
HandleReset ==
  /\ UiReady
  /\ inputText' = ""
  /\ status' = IDLE
  /\ result' = None
  /\ selectedSegment' = None
  /\ error' = None
  /\ Record("reset")
  /\ UNCHANGED <<apiKey, pending, nCalls, crashed, isExtracting, rcVars, acVars>>

\* The textarea's onChange.                                    App.tsx:356-362
SetInputText ==
  /\ UiReady
  /\ status \notin {SUCCESS, ANALYZING}
  /\ \E t \in Docs \ {inputText} : inputText' = t
  /\ Record("setInputText")
  /\ UNCHANGED <<status, result, selectedSegment, error, apiKey, pending,
                 nCalls, crashed, isExtracting, rcVars, acVars>>

\* A click on a rendered segment.                              App.tsx:444-448
SelectSegment ==
  /\ UiReady
  /\ status = SUCCESS
  /\ IsSome(result)
  /\ \E i \in 1..Len(Val(result).segments) :
       LET segment == Val(result).segments[i] IN
       selectedSegment' = IF segment.type # "original" THEN Some(segment)
                          ELSE selectedSegment
  /\ Record("selectSegment")
  /\ UNCHANGED <<inputText, status, result, error, apiKey, pending, nCalls,
                 crashed, isExtracting, rcVars, acVars>>

\* The close button of the selection panel.                    App.tsx:492, 503, 514
ClearSelection ==
  /\ UiReady
  /\ IsSome(result)
  /\ IsSome(selectedSegment)
  /\ selectedSegment' = None
  /\ Record("clearSelection")
  /\ UNCHANGED <<inputText, status, result, error, apiKey, pending, nCalls,
                 crashed, isExtracting, rcVars, acVars>>

\* replaceSegment(suggestion), from a suggestion button.       App.tsx:93-113, 545-555
replaceSegment ==
  /\ UiReady
  /\ IsSome(result)
  /\ IsSome(selectedSegment)
  /\ \E k \in 1..Len(Val(selectedSegment).suggestions) :
       LET suggestion == Val(selectedSegment).suggestions[k]
           res == Val(result)
           newSegments == [i \in 1..Len(res.segments) |->
                             IF res.segments[i].ref = Val(selectedSegment).ref
                             THEN Replaced(res.segments[i], suggestion)
                             ELSE res.segments[i]]
       IN  result' = Some(EditedResult(res, newSegments))
  /\ selectedSegment' = None
  /\ Record("replaceSegment")
  /\ UNCHANGED <<inputText, status, error, apiKey, pending, nCalls, crashed, isExtracting, rcVars, acVars>>

\* handleAutoCorrectAll, from the AI Refine button.            App.tsx:115-130, 427
handleAutoCorrectAll ==
  /\ UiReady
  /\ status = SUCCESS
  /\ IF IsSome(result)
     THEN /\ result' = Some(AutoCorrectAll(Val(result)))
          /\ selectedSegment' = None
     ELSE UNCHANGED <<result, selectedSegment>>
  /\ Record("autoCorrectAll")
  /\ UNCHANGED <<inputText, status, error, apiKey, pending, nCalls, crashed, isExtracting, rcVars, acVars>>

\* The dismiss button of the error banner.                     App.tsx:305, 364-371
DismissError ==
  /\ UiReady
  /\ status # SUCCESS
  /\ IsSome(error)
  /\ error' = None
  /\ Record("dismissError")
  /\ UNCHANGED <<inputText, status, result, selectedSegment, apiKey, pending,
                 nCalls, crashed, isExtracting, rcVars, acVars>>

\* The upload zone takes a click or a drop.                    App.tsx:305-319
UploadReady == UiReady /\ status # SUCCESS /\ ~isExtracting

\* extractTextFromFile for a file that is neither PDF nor text: the throw,
\* the catch and the finally run in the same tick.            App.tsx:133-157
ExtractUnsupported ==
  /\ UploadReady
  /\ error' = Some(InvalidFileType)
  /\ Record("extractUnsupported")
  /\ UNCHANGED <<inputText, status, result, selectedSegment, apiKey, pending,
                 nCalls, crashed, isExtracting, rcVars, acVars>>

\* extractTextFromFile up to its first await.                  App.tsx:133-147
ExtractBegin ==
  /\ UploadReady
  /\ isExtracting' = TRUE
  /\ error' = None
  /\ Record("extractBegin")
  /\ UNCHANGED <<inputText, status, result, selectedSegment, apiKey, pending,
                 nCalls, crashed, rcVars, acVars>>

\* fullText += pageText + '\n'; setInputText(fullText.trim()), or
\* setInputText(text) for a text file.                         App.tsx:137-148
ExtractedText(kind, text) ==
  IF kind = "pdf" THEN TrimString(text \o "\n") ELSE text

\* The file was read: setInputText, then finally.              App.tsx:146-156
ExtractResolve ==
  /\ UiReady
  /\ isExtracting
  /\ \E kind \in FileKinds, text \in FileTexts :
       inputText' = ExtractedText(kind, text)
  /\ isExtracting' = FALSE
  /\ Record("extractResolve")
  /\ UNCHANGED <<status, result, selectedSegment, error, apiKey, pending,
                 nCalls, crashed, rcVars, acVars>>

\* Mutant: a failed read also empties the editor.
ExtractRejectClearsText ==
  /\ UiReady
  /\ isExtracting
  /\ error' = Some(FailedToRead)
  /\ inputText' = ""
  /\ isExtracting' = FALSE
  /\ Record("extractReject")
  /\ UNCHANGED <<status, result, selectedSegment, apiKey, pending,
                 nCalls, crashed, rcVars, acVars>>

\* Reading the file failed: catch, then finally.               App.tsx:152-156
ExtractReject ==
  /\ UiReady
  /\ isExtracting
  /\ error' = Some(FailedToRead)
  /\ isExtracting' = FALSE
  /\ Record("extractReject")
  /\ UNCHANGED <<inputText, status, result, selectedSegment, apiKey, pending,
                 nCalls, crashed, rcVars, acVars>>

RcInit == rcSegs = <<>> /\ rcChunks = <<>> /\ rcOut = <<>>

AcInit == acSegs = <<>> /\ acOut = <<>>

Init ==
  /\ inputText = ""
  /\ status = IDLE
  /\ result = None
  /\ selectedSegment = None
  /\ error = None
  /\ apiKey \in BOOLEAN
  /\ pending = {}
  /\ nCalls = 0
  /\ crashed = FALSE
  /\ isExtracting = FALSE
  /\ lastOp = "init"
  /\ preStatus = IDLE
  /\ lastResp = None
  /\ RcInit
  /\ AcInit

Next ==
  \/ ClickScan
  \/ Complete
  \/ CompleteNoKey
  \/ HandleReset
  \/ SetInputText
  \/ SelectSegment
  \/ ClearSelection
  \/ replaceSegment
  \/ handleAutoCorrectAll
  \/ DismissError
  \/ ExtractUnsupported
  \/ ExtractBegin
  \/ ExtractResolve
  \/ ExtractReject

Spec == Init /\ [][Next]_vars

\* The session when every analyzeText promise settles: the request resolves
\* or rejects (part_000:27-107), and the rejection for the missing key is
\* delivered by the microtask queue (part_000:5-7).
SpecSettling == Spec /\ WF_vars(Complete) /\ WF_vars(CompleteNoKey)

-----------------------------------------------------------------------------
(* Reconciliation harness: the backfill of part_000:87-100 applied to      *)
(* arbitrary bounded segment lists and grounding chunk lists.              *)

RcKinds ==
  { TextSegment("g", "grammar", <<>>, None, None),
    TextSegment("p", "plagiarism", <<>>, None, None),
    TextSegment("p", "plagiarism", <<>>, Some(""), None),
    TextSegment("p", "plagiarism", <<>>, Some(OwnUrl), None) }

RcChunkKinds == {Chunk(None), Chunk(Some(Ref0)), Chunk(Some(Ref1))}

RcAddSegment ==
  /\ rcOut = <<>>
  /\ Len(rcSegs) < MaxSegs
  /\ \E seg \in RcKinds : rcSegs' = Append(rcSegs, seg)
  /\ UNCHANGED <<rcChunks, rcOut, sessionVars, acVars>>

RcAddChunk ==
  /\ rcOut = <<>>
  /\ Len(rcChunks) < MaxChunks
  /\ \E c \in RcChunkKinds : rcChunks' = Append(rcChunks, c)
  /\ UNCHANGED <<rcSegs, rcOut, sessionVars, acVars>>

\* One more pass of the backfill over the latest segment list.
RcReconcile ==
  /\ Len(rcOut) < MaxPasses
  /\ rcOut' = Append(rcOut, Reconcile(IF rcOut = <<>> THEN rcSegs
                                       ELSE rcOut[Len(rcOut)], rcChunks))
  /\ UNCHANGED <<rcSegs, rcChunks, sessionVars, acVars>>

NextRec == RcAddSegment \/ RcAddChunk \/ RcReconcile

InitRec == Init /\ apiKey = TRUE

SpecRec == InitRec /\ [][NextRec]_vars

-----------------------------------------------------------------------------
(* Correction harness: handleAutoCorrectAll of App.tsx:115-130 applied,    *)
(* once and again, to results with arbitrary bounded segment lists.        *)

AcKinds ==
  { TextSegment("o", "original", <<>>, None, None),
    TextSegment("p", "plagiarism", <<"q", "r">>, None, None),
    TextSegment("p", "plagiarism", <<>>, None, None),
    TextSegment("g", "grammar", <<"h">>, None, None) }

\* A result as analyzeText returns it, with the scores of ObjA.
AcResult(segs) ==
  WithRefs(JObject(AllFields, ObjA.plagiarismPercentage, ObjA.grammarScore, segs), 1)

AcAddSegment ==
  /\ acOut = <<>>
  /\ Len(acSegs) < MaxSegs
  /\ \E seg \in AcKinds : acSegs' = Append(acSegs, seg)
  /\ UNCHANGED <<acOut, sessionVars, rcVars>>

\* One more run of handleAutoCorrectAll on the latest result.
AcCorrect ==
  /\ Len(acOut) < MaxPasses
  /\ acOut' = Append(acOut, AutoCorrectAll(IF acOut = <<>> THEN AcResult(acSegs)
                                            ELSE acOut[Len(acOut)]))
  /\ UNCHANGED <<acSegs, sessionVars, rcVars>>

NextAc == AcAddSegment \/ AcCorrect

SpecAc == InitRec /\ [][NextAc]_vars

-----------------------------------------------------------------------------
(* Claims *)

\* The number of Plagiarism segments lacking a sourceUrl among the first n.
RECURSIVE UnattributedBefore(_, _)
UnattributedBefore(segs, n) ==
  IF n = 0 THEN 0
  ELSE UnattributedBefore(segs, n - 1)
       + (IF segs[n].type = "plagiarism" /\ ~HasSourceUrl(segs[n]) THEN 1 ELSE 0)

FiveUnattributed == [i \in 1..5 |-> TextSegment("p", "plagiarism", <<>>, None, None)]

TwoReferences == <<Chunk(Some(Ref0)), Chunk(Some(Ref1))>>

\* C6: with a non-empty reference list of length n, the k-th (0-based, in
\* segment order) Plagiarism segment lacking a sourceUrl receives
\* references[k mod n], and every Plagiarism segment ends with a sourceUrl;
\* 2 references and 5 unattributed segments give ref0,ref1,ref0,ref1,ref0.
C6_RoundRobin ==
  LET refs == GroundingUrls(rcChunks)
      n == Len(refs)
  IN  (rcOut # <<>> /\ n > 0) =>
        /\ \A i \in 1..Len(rcSegs) :
             /\ (rcSegs[i].type = "plagiarism" /\ ~HasSourceUrl(rcSegs[i])) =>
                  rcOut[1][i].sourceUrl = refs[(UnattributedBefore(rcSegs, i - 1) % n) + 1]
             /\ rcOut[1][i].type = "plagiarism" => HasSourceUrl(rcOut[1][i])
        /\ (rcSegs = FiveUnattributed /\ rcChunks = TwoReferences) =>
             [i \in 1..5 |-> rcOut[1][i].sourceUrl]
               = <<Some(Ref0), Some(Ref1), Some(Ref0), Some(Ref1), Some(Ref0)>>

C6_Witness ==
  rcSegs = FiveUnattributed /\ rcChunks = TwoReferences /\ Len(rcOut) >= 1

\* C7: reconciling the already-reconciled segments again, with the same
\* references, leaves every segment's sourceUrl as the first pass set it.
C7_Idempotent ==
  Len(rcOut) >= 2 =>
    /\ Len(rcOut[2]) = Len(rcOut[1])
    /\ \A i \in 1..Len(rcOut[1]) : rcOut[2][i].sourceUrl = rcOut[1][i].sourceUrl

C7_Witness ==
  /\ Len(rcOut) >= 2
  /\ Len(GroundingUrls(rcChunks)) = 1
  /\ Len(rcChunks) = 2
  /\ UnattributedBefore(rcSegs, Len(rcSegs)) >= 3
  /\ rcOut[1] # rcSegs

-----------------------------------------------------------------------------
(* Claims about the session *)

\* The response the call settled last received, and what the code parsed from it.
LastResponse == Val(lastResp).resp

LastParsed == JsonParse(CleanText(LastResponse.text))

\* The raw response parses to an object carrying the four required fields.
LastStructurallyValid ==
  /\ ~LastResponse.rejected
  /\ LastParsed.ok
  /\ StructurallyValid(LastParsed.value)

\* C1: a result is committed (status Success) only for a structurally valid
\* response; for every other raw response the session ends in Error with no
\* result committed.  (Stated for the sessions whose page still renders.)
C1_NoCorruptCommit ==
  (lastOp = "complete" /\ ~crashed) =>
    \/ LastStructurallyValid
    \/ (status = ERROR /\ result = None)

\* C2: a click on Scan Content while status is Analyzing starts nothing:
\* no call is issued or queued, and status, result, selection and error
\* stay as they were.
C2_RejectedWhileAnalyzing ==
  [][(lastOp' = "clickScan" /\ status = ANALYZING) =>
       UNCHANGED <<status, result, selectedSegment, error, pending, nCalls>>]_vars

C2_Witness ==
  lastOp = "clickScan" /\ preStatus = ANALYZING /\ status = ANALYZING /\ pending # {}

\* C3: at most one external-service call is outstanding.
C3_SingleFlight == Cardinality({c \in pending : c.external}) <= 1

AllowedEdges ==
  { <<IDLE, ANALYZING>>, <<ANALYZING, SUCCESS>>, <<ANALYZING, ERROR>>,
    <<SUCCESS, IDLE>>, <<ERROR, IDLE>>, <<SUCCESS, ANALYZING>>, <<ERROR, ANALYZING>> }

\* C4: status changes only along the edges of the session state machine
\* (plus reset to Idle from any state); never Idle -> Success or Idle -> Error.
C4_StatusEdges ==
  (preStatus # status /\ ~crashed) =>
    \/ <<preStatus, status>> \in AllowedEdges
    \/ (lastOp = "reset" /\ status = IDLE)

\* C5: the segments of a committed result concatenate to the text that was
\* submitted to that analysis.
C5_Reconstruction ==
  (lastOp = "complete" /\ status = SUCCESS /\ IsSome(result) /\ ~crashed) =>
    Concat(Val(result).segments) = Val(lastResp).call.text

\* C8: with no usable grounding reference (no chunks, or chunks without a
\* web uri) the backfill raises no error, unattributed Plagiarism segments
\* stay unattributed, and the analysis commits its result.
C8_EmptyReferences ==
  ( /\ lastOp = "complete"
    /\ ~LastResponse.rejected
    /\ LastParsed.ok
    /\ HasSegments(LastParsed.value)
    /\ \A i \in 1..Len(LastResponse.chunks) : LastResponse.chunks[i].uri = None )
  =>
    /\ status = SUCCESS
    /\ IsSome(result)
    /\ Len(Val(result).segments) = Len(LastParsed.value.segments)
    /\ \A i \in 1..Len(LastParsed.value.segments) :
         Val(result).segments[i].sourceUrl = LastParsed.value.segments[i].sourceUrl

C8_Witness ==
  /\ lastOp = "complete"
  /\ IsSome(lastResp)
  /\ LastResponse.chunks = ChunkNoUri
  /\ status = SUCCESS
  /\ IsSome(result)
  /\ \E i \in 1..Len(Val(result).segments) :
       /\ Val(result).segments[i].type = "plagiarism"
       /\ Val(result).segments[i].sourceUrl = None

\* The segments of the current result that are the selected object.
SelectedIndexes ==
  {i \in 1..Len(Val(result).segments) :
     Val(result).segments[i].ref = Val(selectedSegment).ref}

\* C9: after replaceSegment the selected segment has the chosen suggestion
\* as text, kind Original, and no suggestions, explanation or sourceUrl.
C9_SegmentCleared ==
  [][lastOp' = "replaceSegment" =>
       \A i \in SelectedIndexes :
         LET after == Val(result').segments[i] IN
         /\ \E k \in 1..Len(Val(selectedSegment).suggestions) :
              after.text = Val(selectedSegment).suggestions[k]
         /\ after.type = "original"
         /\ after.suggestions = <<>>
         /\ after.explanation = None
         /\ after.sourceUrl = None]_vars

\* C10: replaceSegment keeps the number and order of the segments, modifies
\* exactly the selected segment and leaves every other segment identical.
C10_OneToOne ==
  [][lastOp' = "replaceSegment" =>
       /\ Len(Val(result').segments) = Len(Val(result).segments)
       /\ Cardinality(SelectedIndexes) = 1
       /\ \A i \in 1..Len(Val(result).segments) :
            (Val(result').segments[i] # Val(result).segments[i]) <=> i \in SelectedIndexes]_vars

-----------------------------------------------------------------------------
(* Claims about edits, reset and rejected input *)

\* The aggregate fields of a result other than plagiarismPercentage.
OtherAggregates ==
  {"grammarScore", "aiLikelihood", "writingTone", "overallSummary",
   "subtopics", "citations"}

\* C11: replaceSegment changes, of the aggregate fields, plagiarismPercentage
\* only: grammarScore, aiLikelihood, writingTone, overallSummary, subtopics
\* and citations are as before, and so are status and inputText.
C11_Frame ==
  [][lastOp' = "replaceSegment" =>
       /\ \A f \in OtherAggregates :
            /\ Val(result')[f] = Val(result)[f]
            /\ (f \in Val(result').has) <=> (f \in Val(result).has)
       /\ UNCHANGED <<status, inputText>>]_vars

C11_Witness ==
  /\ lastOp = "replaceSegment"
  /\ IsSome(result)
  /\ Val(result).grammarScore = ObjB.grammarScore
  /\ Val(result).plagiarismPercentage # ObjB.plagiarismPercentage

\* round(100 * plagiarised characters / all characters) in exact arithmetic,
\* a half rounding up; 0 for no characters at all.
CharacterWeighted(segs) ==
  LET total == SumLen(segs)
      plagiarised == SumLen(SelectSeq(segs, LAMBDA x : x.type = "plagiarism"))
  IN  IF total = 0 THEN 0 ELSE (200 * plagiarised + total) \div (2 * total)

\* C12: after replaceSegment, plagiarismPercentage is
\* round(100 * (length of the Plagiarism segments) / (length of all segments))
\* over the segments after the replacement, and 0 when that total is 0.
C12_Recomputed ==
  (lastOp = "replaceSegment" /\ IsSome(result)) =>
    Val(result).plagiarismPercentage = CharacterWeighted(Val(result).segments)

\* C13: after replaceSegment or handleAutoCorrectAll both
\* plagiarismPercentage and grammarScore are integers in 0..100, whatever
\* the service returned.
C13_ScoreBounds ==
  (lastOp \in {"replaceSegment", "autoCorrectAll"} /\ IsSome(result)) =>
    /\ {"plagiarismPercentage", "grammarScore"} \subseteq Val(result).has
    /\ Val(result).plagiarismPercentage \in 0..100
    /\ Val(result).grammarScore \in 0..100

\* C14: handleAutoCorrectAll gives every non-Original segment that has a
\* suggestion its first suggestion as text and kind Original, leaves every
\* other segment as it was, keeps the number and order of the segments, and
\* sets plagiarismPercentage to 0 and grammarScore to 100.
C14_AutoCorrectAll ==
  [][(lastOp' = "autoCorrectAll" /\ IsSome(result)) =>
       LET before == Val(result).segments
           after  == Val(result').segments
       IN  /\ Len(after) = Len(before)
           /\ \A i \in 1..Len(before) :
                IF before[i].type # "original" /\ Len(before[i].suggestions) >= 1
                THEN /\ after[i].text = before[i].suggestions[1]
                     /\ after[i].type = "original"
                     /\ after[i].ref[2] = before[i].ref[2]
                ELSE after[i] = before[i]
           /\ Val(result').plagiarismPercentage = 0
           /\ Val(result').grammarScore = 100]_vars

C14_Witness ==
  /\ lastOp = "autoCorrectAll"
  /\ IsSome(result)
  /\ \E i \in 1..Len(Val(result).segments) :
       LET s == Val(result).segments[i] IN
       /\ Len(s.suggestions) >= 2
       /\ s.text = s.suggestions[1]
       /\ s.type = "original"
  /\ \E i \in 1..Len(Val(result).segments) : Val(result).segments[i].ref[3] = 0

\* C15: after handleAutoCorrectAll no segment has kind Plagiarism or Grammar.
C15_NoneFlagged ==
  (lastOp = "autoCorrectAll" /\ IsSome(result)) =>
    \A i \in 1..Len(Val(result).segments) :
      Val(result).segments[i].type \notin {"plagiarism", "grammar"}

\* C16: after a user edit, by replaceSegment or by handleAutoCorrectAll, the
\* stored plagiarismPercentage is the character-weighted value of the
\* current segments: one weighting policy on both paths.
C16_OnePolicy ==
  (lastOp \in {"replaceSegment", "autoCorrectAll"} /\ IsSome(result)) =>
    Val(result).plagiarismPercentage = CharacterWeighted(Val(result).segments)

\* C17: reset is offered in every state of a rendered session, Analyzing
\* included, and right after it status is Idle, inputText is empty and
\* result, selection and error are absent.
C17_Reset ==
  /\ [](UiReady => ENABLED HandleReset)
  /\ [][lastOp' = "reset" =>
          /\ status' = IDLE
          /\ inputText' = ""
          /\ result' = None
          /\ selectedSegment' = None
          /\ error' = None]_vars

C17_Witness ==
  lastOp = "reset" /\ preStatus = ANALYZING /\ pending # {} /\ status = IDLE

\* C18: a call that was outstanding when reset ran commits nothing when it
\* completes: the session stays Idle, with no result and no error.
\* (Stated for the completions after which the page still renders.)
C18_StaleCompletion ==
  [][(lastOp = "reset" /\ lastOp' = "complete" /\ ~crashed') =>
       (status' = IDLE /\ result' = None /\ error' = None)]_vars

\* C19: in every state whose status is Analyzing the session holds no
\* result and no selection.
C19_AnalyzingIsClean ==
  status = ANALYZING => (result = None /\ selectedSegment = None)

C19_Witness ==
  status = ANALYZING /\ Cardinality(pending) = 2 /\ lastOp = "clickScan"

-----------------------------------------------------------------------------
(* Claims about failures, external calls and selection *)

\* The call settled last failed: no key, a rejected request, an empty
\* response text, or a text that JSON.parse does not accept.
LastFailed ==
  \/ LastResponse.rejected
  \/ LastResponse.text = EmptyText
  \/ ~LastParsed.ok

\* C21: every failure of an analysis (configuration, transport, empty or
\* malformed response) takes the session from Analyzing to Error, with a
\* non-empty error message and no result committed.
C21_FailuresToError ==
  (lastOp = "complete" /\ preStatus = ANALYZING /\ LastFailed) =>
    /\ status = ERROR
    /\ IsSome(error)
    /\ Val(error) # ""
    /\ result = None

\* C22: an empty raw response makes the analysis fail: status Error, the
\* generic analysis-failed message, no result committed.
C22_EmptyResponse ==
  (lastOp = "complete" /\ ~LastResponse.rejected /\ LastResponse.text = EmptyText) =>
    /\ status = ERROR
    /\ error = Some(GenericFailure)
    /\ result = None

\* C23: without an API key no request goes to the external service, the
\* analysis ends in Error with the configuration error's own message, and
\* nothing is issued again.
C23_MissingKey ==
  /\ [](~apiKey => \A c \in pending : ~c.external)
  /\ [][(lastOp' = "complete" /\ ~apiKey) =>
          /\ status' = ERROR
          /\ error' = Some(MISSING_API_KEY)
          /\ result' = result
          /\ pending' \subseteq pending
          /\ nCalls' = nCalls]_vars

C23_Witness ==
  /\ lastOp = "complete"
  /\ ~apiKey
  /\ status = ERROR
  /\ error = Some(MISSING_API_KEY)
  /\ pending = {}

\* The step is an accepted startAnalysis: a click that starts an analysis.
AcceptedStart ==
  lastOp' = "clickScan" /\ status # ANALYZING /\ status' = ANALYZING

\* C24 as stated: every accepted startAnalysis invokes the external service
\* exactly once.
C24_ExactlyOnce ==
  [][AcceptedStart =>
       Cardinality({c \in pending' \ pending : c.external}) = 1]_vars

\* C24, amended: an accepted startAnalysis calls analyzeText exactly once,
\* for the text entered, and that call goes to the external service exactly
\* when the API key is configured; no other step (selection, edits, reset,
\* a completion, failed or not) issues a call.
C24_OncePerStart ==
  [][IF AcceptedStart
     THEN /\ nCalls' = nCalls + 1
          /\ Cardinality(pending' \ pending) = 1
          /\ \A c \in pending' \ pending : c.external = apiKey /\ c.text = inputText
          /\ pending \subseteq pending'
     ELSE /\ nCalls' = nCalls
          /\ pending' \subseteq pending]_vars

C24_Witness ==
  /\ lastOp = "complete"
  /\ apiKey
  /\ status = ERROR
  /\ nCalls = 1
  /\ pending = {}

\* C25: selectSegment and clearSelection are available only in Success and
\* change the selection only; hence a selection exists only in Success.
C25_SelectionInSuccess ==
  IsSome(selectedSegment) => status = SUCCESS

\* C26: a response text of prose followed by a fenced valid JSON object is
\* parsed to a structurally valid result, which is committed.
C26_ProseThenFence ==
  ( /\ lastOp = "complete"
    /\ preStatus = ANALYZING
    /\ ~LastResponse.rejected
    /\ LastResponse.text = <<Prose>> \o Fenced(ObjA) )
  =>
    /\ status = SUCCESS
    /\ IsSome(result)
    /\ StructurallyValid(Val(result))

\* C27: a failed file extraction (unsupported type, or a read error) sets an
\* error message and leaves inputText, status and result as they were.
C27_ExtractionFailure ==
  [][lastOp' \in {"extractUnsupported", "extractReject"} =>
       /\ IsSome(error')
       /\ Val(error') # ""
       /\ UNCHANGED <<inputText, status, result>>]_vars

C27_Witness ==
  /\ lastOp = "extractReject"
  /\ inputText = DocA
  /\ status = ANALYZING
  /\ error = Some(FailedToRead)

\* The segment list that pass k of the reconciliation was given.
RcInput(k) == IF k = 1 THEN rcSegs ELSE rcOut[k - 1]

\* C28: reconciliation only fills missing sourceUrl values: the number and
\* order of the segments and every segment's text, kind, suggestions and
\* explanation are kept, and a segment that is not Plagiarism, or that has a
\* (non-empty) sourceUrl already, is left as it is.
C28_OnlyFillsSourceUrl ==
  \A k \in 1..Len(rcOut) :
    /\ Len(rcOut[k]) = Len(RcInput(k))
    /\ Concat(rcOut[k]) = Concat(RcInput(k))
    /\ \A i \in 1..Len(rcOut[k]) :
         LET before == RcInput(k)[i]
             after  == rcOut[k][i]
         IN  /\ after.text = before.text
             /\ after.type = before.type
             /\ after.suggestions = before.suggestions
             /\ after.explanation = before.explanation
             /\ (before.type # "plagiarism" \/ HasSourceUrl(before)) => after = before
             /\ after # before => HasSourceUrl(after)

C28_Witness ==
  /\ Len(rcOut) >= 1
  /\ rcOut[1] # rcSegs
  /\ \E i \in 1..Len(rcSegs) : rcSegs[i].type = "grammar"
  /\ \E i \in 1..Len(rcSegs) : rcSegs[i].sourceUrl = Some(OwnUrl)

\* C29: in every state the selection, when present, is one of the current
\* result's segments and has kind Plagiarism or Grammar.
\* (Stated for the sessions whose page still renders.)
C29_SelectionIsCurrent ==
  (IsSome(selectedSegment) /\ ~crashed) =>
    /\ IsSome(result)
    /\ \E i \in 1..Len(Val(result).segments) :
         /\ Val(result).segments[i].ref = Val(selectedSegment).ref
         /\ Val(result).segments[i].type \in {"plagiarism", "grammar"}

\* C30: a result the session holds comes from the most recently accepted
\* startAnalysis: a call started earlier never commits its result after a
\* later one was accepted.
C30_LatestAnalysisOnly ==
  (lastOp = "complete" /\ Val(lastResp).outcome.ok /\ IsSome(result) /\ ~crashed) =>
    Val(lastResp).call.id = nCalls

-----------------------------------------------------------------------------
(* Claims about the session's invariants and about repeated edits *)

\* C31: in every state the session holds a result exactly when status is
\* Success.  (Stated for the sessions whose page still renders.)
C31_ResultIffSuccess ==
  ~crashed => (IsSome(result) <=> status = SUCCESS)

\* C32 as stated: in every state the session holds an error message exactly
\* when status is Error.
C32_ErrorIffErrorStatus ==
  IsSome(error) <=> status = ERROR

\* C32, amended: status becomes Error only by the completion of a call, in
\* the step that also stores a non-empty error message; the minimum-length
\* rejection, the start and the failure of a file extraction and the
\* dismissal of the banner set or clear the message and leave status alone.
C32_ErrorEntry ==
  [][/\ (status' = ERROR /\ status # ERROR) =>
          (lastOp' = "complete" /\ IsSome(error') /\ Val(error') # "")
     /\ (lastOp' = "complete" /\ ~Val(lastResp').outcome.ok) =>
          (status' = ERROR /\ IsSome(error') /\ Val(error') # "")
     /\ ( \/ lastOp' \in {"extractUnsupported", "extractBegin", "extractReject",
                          "dismissError"}
          \/ (lastOp' = "clickScan" /\ Len(inputText) < MinChars) ) =>
          status' = status]_vars

C32_Witness ==
  /\ lastOp = "complete"
  /\ preStatus = ANALYZING
  /\ status = ERROR
  /\ error = Some(GenericFailure)
  /\ isExtracting

\* The case of C33: a suggestion is applied to a selected Plagiarism or
\* Grammar segment of a result whose stored percentage is the
\* character-weighted value of its segments.
C33_Case ==
  /\ lastOp' = "replaceSegment"
  /\ IsSome(result) /\ IsSome(result') /\ IsSome(selectedSegment)
  /\ Val(selectedSegment).type \in {"plagiarism", "grammar"}
  /\ "plagiarismPercentage" \in Val(result).has
  /\ SumLen(Val(result).segments) > 0
  /\ Val(result).plagiarismPercentage = CharacterWeighted(Val(result).segments)

\* C33 as stated: applying any suggestion to any selected Plagiarism or
\* Grammar segment never raises plagiarismPercentage.
C33_NeverMorePlagiarised ==
  [][C33_Case =>
       Val(result').plagiarismPercentage <= Val(result).plagiarismPercentage]_vars

\* C33, amended: plagiarismPercentage does not rise when the selected segment
\* is a Plagiarism segment, whatever the suggestion, nor when the edit does
\* not shorten the document; a shorter replacement of a Grammar segment may
\* raise it.
C33_NoRiseForPlagiarism ==
  [][(/\ C33_Case
      /\ \/ Val(selectedSegment).type = "plagiarism"
         \/ SumLen(Val(result').segments) >= SumLen(Val(result).segments)) =>
       Val(result').plagiarismPercentage <= Val(result).plagiarismPercentage]_vars

\* One of the three copied passages of the second document has been
\* rewritten: 44 of 63 characters remain flagged.
C33_Witness ==
  /\ lastOp = "replaceSegment"
  /\ IsSome(result)
  /\ Val(result).grammarScore = ObjB.grammarScore
  /\ Val(result).plagiarismPercentage \in 1..99
  /\ Val(result).plagiarismPercentage = CharacterWeighted(Val(result).segments)

\* The scores handleAutoCorrectAll leaves, in a session where no suggestion
\* is left to apply: every segment still flagged, and the selected segment
\* if there is one, has no suggestions.
AllCorrected ==
  /\ IsSome(result)
  /\ Val(result).plagiarismPercentage = 0
  /\ Val(result).grammarScore = 100
  /\ \A i \in 1..Len(Val(result).segments) :
       Val(result).segments[i].type # "original" =>
         Val(result).segments[i].suggestions = <<>>
  /\ IsSome(selectedSegment) => Val(selectedSegment).suggestions = <<>>

\* C34: handleAutoCorrectAll on a result leaves plagiarismPercentage 0 and
\* grammarScore 100 with no suggestion left to apply, and selectSegment,
\* clearSelection, replaceSegment and handleAutoCorrectAll keep it so: the
\* scores stay 0 and 100 under every sequence of these four, until a reset
\* or a new analysis.
C34_StaysCorrected ==
  [][/\ (lastOp' = "autoCorrectAll" /\ IsSome(result)) => AllCorrected'
     /\ (AllCorrected /\ lastOp' \in {"selectSegment", "clearSelection",
                                      "replaceSegment", "autoCorrectAll"}) =>
          AllCorrected']_vars

\* After the correction of the second document its last passage, which has
\* no suggestion, is selected: the scores are still 0 and 100.
C34_Witness ==
  /\ lastOp = "selectSegment"
  /\ AllCorrected
  /\ IsSome(selectedSegment)
  /\ Val(selectedSegment).type = "plagiarism"
  /\ \E i \in 1..Len(Val(result).segments) : Val(result).segments[i].ref[3] > 0

\* C35: handleAutoCorrectAll is idempotent: every further run on its own
\* result yields the segments and the scores of the first run.
C35_Idempotent ==
  \A k \in 2..Len(acOut) : acOut[k] = acOut[1]

\* The second run has been made on a result whose first run rewrote a
\* segment and left a flagged one without suggestions.
C35_Witness ==
  /\ Len(acOut) >= 2
  /\ acOut[1].segments # AcResult(acSegs).segments
  /\ \E i \in 1..Len(acSegs) : acOut[2].segments[i].type # "original"

\* C36: when every call settles, every state with status Analyzing is
\* followed by a state with status Success, Error or Idle.
C36_AnalyzingEnds ==
  (status = ANALYZING) ~> (status \in {SUCCESS, ERROR, IDLE})

\* The call of an analysis that was in progress has resolved and the session
\* shows its report.
C36_Witness ==
  /\ lastOp = "complete"
  /\ preStatus = ANALYZING
  /\ status = SUCCESS
  /\ IsSome(result)
  /\ pending = {}

====
